---- MODULE Spec2Model ----
(***************************************************************************)
(* Model of the e-mail notification service of the Delicious Kitchen      *)
(* notification microservice (src/services/EmailNotificationService.ts).  *)
(*                                                                         *)
(* One service instance is modelled: the state left by its constructor    *)
(* (initializeTransporter), the not-awaited start-up verification          *)
(* (verifyConnection) and one delivery request, which is an arbitrary      *)
(* call of sendOrderReadyNotification or sendOrderPreparingNotification.   *)
(* A delivery only reads the instance state (isConfigured, transporter),   *)
(* so one request stands for any of them.                                  *)
(*                                                                         *)
(* JavaScript values are records [type, val]; strings are sequences of     *)
(* one-character strings, so that the e-mail regular expression is         *)
(* computed character by character.                                        *)
(***************************************************************************)
EXTENDS Integers, Sequences, FiniteSets, TLC

(***************************************************************************)
(* Bounds of the model.                                                    *)
(***************************************************************************)
MaxEmailLen == 5
MaxItems == 2
MaxFailFirst == 3
MaxHandles == 3
MaxSubscribers == 1
MaxEvents == 2
MaxConnections == 2

(* The number of attempts the documentation promises (README.md,          *)
(* "Retry automatico si falla (3 intentos con backoff exponencial)").     *)
MaxAttempts == 3

(***************************************************************************)
(* JavaScript values.                                                      *)
(***************************************************************************)
Undefined == [type |-> "undefined", val |-> <<>>]
Str(s) == [type |-> "string", val |-> s]
Number42 == [type |-> "number", val |-> <<>>]
Array(s) == [type |-> "array", val |-> s]

(* JavaScript truthiness: undefined and "" are falsy; a non-zero number   *)
(* and every array (also the empty one) are truthy.                       *)
Truthy(v) ==
  CASE v.type = "undefined" -> FALSE
    [] v.type = "string" -> v.val # <<>>
    [] OTHER -> TRUE

EmailChars == {"a", "@", ".", " "}

RECURSIVE SeqsUpTo(_, _)
SeqsUpTo(S, n) ==
  IF n = 0 THEN {<<>>}
  ELSE LET shorter == SeqsUpTo(S, n - 1)
       IN shorter \cup {Append(s, c) : s \in {t \in shorter : Len(t) = n - 1}, c \in S}

(* Inputs of a delivery request. *)
Emails == {Undefined, Number42} \cup {Str(s) : s \in SeqsUpTo(EmailChars, MaxEmailLen)}
Names == {Undefined, Number42, Str(<<>>), Str(<<"A", "n", "a">>)}
OrderNumbers == {Undefined, Number42, Str(<<>>), Str(<<"O", "1">>)}
ItemNames == {Undefined, Str(<<"T", "a", "c", "o">>)}
ItemLists == {Undefined} \cup {Array(s) : s \in SeqsUpTo(ItemNames, MaxItems)}
FailCounts == 0..MaxFailFirst

(* "", "a", "a@a", "a@a.a", "a @a.a", and two values that are not strings. *)
EmailSamples ==
  {Undefined, Number42, Str(<<>>), Str(<<"a">>), Str(<<"a", "@", "a">>),
   Str(<<"a", "@", "a", ".", "a">>), Str(<<"a", " ", "@", "a", ".", "a">>)}

SomeItemLists == {Array(<<>>), Array(<<Str(<<"T", "a", "c", "o">>)>>)}
Kinds == {"ready", "preparing"}

(***************************************************************************)
(* isValidEmail: /^[^\s@]+@[^\s@]+\.[^\s@]+$/ after the guard on empty    *)
(* and non-string values.                                                  *)
(***************************************************************************)
NotSpaceOrAt(c) == c # " " /\ c # "@"

AllNotSpaceOrAt(s, from, to) == \A k \in from..to : NotSpaceOrAt(s[k])

(* The expression without its "\.[^\s@]+" part. *)
RegexMatchNoDot(s) ==
  \E i \in 2..(Len(s) - 1) :
    /\ AllNotSpaceOrAt(s, 1, i - 1)
    /\ s[i] = "@"
    /\ AllNotSpaceOrAt(s, i + 1, Len(s))

RegexMatch(s) ==
  \E i \in 2..Len(s) : \E j \in (i + 2)..(Len(s) - 1) :
    /\ AllNotSpaceOrAt(s, 1, i - 1)
    /\ s[i] = "@"
    /\ AllNotSpaceOrAt(s, i + 1, j - 1)
    /\ s[j] = "."
    /\ AllNotSpaceOrAt(s, j + 1, Len(s))

isValidEmail(email) ==
  IF ~Truthy(email) \/ email.type # "string" THEN FALSE
  ELSE RegexMatch(email.val)

(***************************************************************************)
(* State.                                                                  *)
(*   env          which of SMTP_HOST, SMTP_USER, SMTP_PASSWORD are set     *)
(*   transporter  "unset" or "set" (the field assigned by createTransport) *)
(*   isConfigured the private flag of the service                          *)
(*   verify       position of the not-awaited verifyConnection()           *)
(*   pc           position of the delivery: idle, sending (suspended on    *)
(*                await sendMail), done                                    *)
(*   req          arguments of the delivery, its kind and the behaviour of *)
(*                the transport for it (rejects the first failFirst calls) *)
(*   timeline     what the delivery did: "send" when sendMail is invoked,  *)
(*                "ok" / "fail" when the call settles, "wait2" / "wait4"   *)
(*                for a backoff timer                                      *)
(*   result       "none", or how the promise settled: "true", "false",     *)
(*                "threw"                                                  *)
(***************************************************************************)
VARIABLES env, transporter, isConfigured, verify, pc, req, timeline, result

(***************************************************************************)
(* State of the live channel and of the event router.                      *)
(*   handles       the subscriber registry: the registered handles, in the *)
(*                 order of their registration                             *)
(*   nextHandle    the identifier the next registered handle gets          *)
(*   received      for every handle, the identifiers of the notifications  *)
(*                 written to it, in the order of the writes               *)
(*   consumed      the number of events handed to the router so far        *)
(*   lastEvent     the event the router handled last                       *)
(*   lastBroadcast what the router did with it: the notification built     *)
(*                 (or NoNotification), the handles the broadcast visited  *)
(*                 and those whose write failed                            *)
(*   detached      the deliveries the router started and did not wait for, *)
(*                 in the order of their start                             *)
(*   crashed       an error left the router and ended the consumption      *)
(*   pass          the broadcast pass in progress, when the writes of a    *)
(*                 broadcast are observed one by one: the identifier of    *)
(*                 the notification and the handles of the snapshot that   *)
(*                 are still to be written                                 *)
(***************************************************************************)
VARIABLES handles, nextHandle, received, consumed, lastEvent, lastBroadcast, detached,
          crashed, pass

serviceVars == <<env, transporter, isConfigured, verify>>

callVars == <<pc, req, timeline, result>>

routerVars ==
  <<handles, nextHandle, received, consumed, lastEvent, lastBroadcast, detached, crashed,
    pass>>

vars == <<env, transporter, isConfigured, verify, pc, req, timeline, result,
          handles, nextHandle, received, consumed, lastEvent, lastBroadcast, detached,
          crashed, pass>>

Envs == [host : BOOLEAN, user : BOOLEAN, password : BOOLEAN]

NoRequest ==
  [kind |-> "none", orderNumber |-> Undefined, customerName |-> Undefined,
   customerEmail |-> Undefined, items |-> Undefined, failFirst |-> 0]

(* The constructor checking SMTP_HOST only. *)
initializeTransporterHostOnly(e) ==
  IF ~e.host
  THEN [isConfigured |-> FALSE, transporter |-> "unset", verify |-> "none"]
  ELSE [isConfigured |-> TRUE, transporter |-> "set", verify |-> "pending"]

(* The constructor: initializeTransporter(). *)
initializeTransporter(e) ==
  IF ~e.host \/ ~e.user \/ ~e.password
  THEN [isConfigured |-> FALSE, transporter |-> "unset", verify |-> "none"]
  ELSE [isConfigured |-> TRUE, transporter |-> "set", verify |-> "pending"]

(* Values of the router state before any event. *)
HandleIds == 1..MaxHandles

NoNotification == [id |-> 0, kind |-> "none", orderId |-> Undefined, message |-> <<>>]

NoEvent == [decodable |-> FALSE, type |-> "none", data |-> Undefined]

NoBroadcast == [notification |-> NoNotification, attempted |-> <<>>, failed |-> {}]

NoPass == [active |-> FALSE, id |-> 0, todo |-> <<>>, closed |-> {}]

InitRouterVars ==
  /\ handles = <<>>
  /\ nextHandle = 1
  /\ received = [h \in HandleIds |-> <<>>]
  /\ consumed = 0
  /\ lastEvent = NoEvent
  /\ lastBroadcast = NoBroadcast
  /\ detached = <<>>
  /\ crashed = FALSE
  /\ pass = NoPass

Init ==
  /\ InitRouterVars
  /\ env \in Envs
  /\ isConfigured = initializeTransporter(env).isConfigured
  /\ transporter = initializeTransporter(env).transporter
  /\ verify = initializeTransporter(env).verify
  /\ pc = "idle"
  /\ req = NoRequest
  /\ timeline = <<>>
  /\ result = "none"

(* verifyConnection(): transporter.verify() resolves. *)
VerifySucceeds ==
  /\ verify = "pending"
  /\ verify' = "ok"
  /\ UNCHANGED <<env, transporter, isConfigured, pc, req, timeline, result>>
  /\ UNCHANGED routerVars

(* verifyConnection(): transporter.verify() rejects; the catch clears the flag. *)
VerifyFails ==
  /\ verify = "pending"
  /\ verify' = "failed"
  /\ isConfigured' = FALSE
  /\ UNCHANGED <<env, transporter, pc, req, timeline, result>>
  /\ UNCHANGED routerVars

(***************************************************************************)
(* The templates.  escapeHtml(text) calls text.replace, which is a         *)
(* TypeError for a value that is not a string; the HTML template escapes   *)
(* every item name and the customer name.                                  *)
(***************************************************************************)
escapeHtmlThrows(text) == text.type # "string"

generateReadyEmailTemplateThrows(customerName, items) ==
  \/ items.type # "array"
  \/ \E k \in 1..Len(items.val) : escapeHtmlThrows(items.val[k])
  \/ escapeHtmlThrows(customerName)

(* A preparing template that does not escape the customer name. *)
generatePreparingEmailTemplateNoName(customerName, items) ==
  \/ items.type # "array"
  \/ \E k \in 1..Len(items.val) : escapeHtmlThrows(items.val[k])

generatePreparingEmailTemplateThrows(customerName, items) ==
  \/ items.type # "array"
  \/ \E k \in 1..Len(items.val) : escapeHtmlThrows(items.val[k])
  \/ escapeHtmlThrows(customerName)

(* !items || items.length <= 1 *)
ItemsMissingOffByOne(items) ==
  \/ ~Truthy(items)
  \/ (items.type = "array" /\ Len(items.val) <= 1)

(* !items || items.length === 0 *)
ItemsMissing(items) ==
  \/ ~Truthy(items)
  \/ (items.type = "array" /\ Len(items.val) = 0)

(***************************************************************************)
(* The synchronous part of a delivery, up to the await: the guard clauses, *)
(* then the try block that builds mailOptions and invokes sendMail.        *)
(*   "rejected"  one of the guard clauses returned false                   *)
(*   "caught"    the try block threw before sendMail was invoked           *)
(*   "send"      sendMail was invoked                                      *)
(***************************************************************************)
(* The guard clauses without the test of customerName. *)
readyGuardsNoName(configured, orderNumber, customerName, customerEmail, items) ==
  IF ~configured THEN "rejected"
  ELSE IF ~isValidEmail(customerEmail) THEN "rejected"
  ELSE IF ~Truthy(orderNumber) \/ ItemsMissing(items)
  THEN "rejected"
  ELSE "pass"

readyGuards(configured, orderNumber, customerName, customerEmail, items) ==
  IF ~configured THEN "rejected"
  ELSE IF ~isValidEmail(customerEmail) THEN "rejected"
  ELSE IF ~Truthy(orderNumber) \/ ~Truthy(customerName) \/ ItemsMissing(items)
  THEN "rejected"
  ELSE "pass"

(* The guard clauses of the preparing flow without the test of the flag. *)
preparingGuardsNoFlag(configured, orderNumber, customerName, customerEmail, items) ==
  IF ~isValidEmail(customerEmail) THEN "rejected"
  ELSE IF ~Truthy(orderNumber) \/ ~Truthy(customerName) \/ ItemsMissing(items)
  THEN "rejected"
  ELSE "pass"

preparingGuards(configured, orderNumber, customerName, customerEmail, items) ==
  IF ~configured THEN "rejected"
  ELSE IF ~isValidEmail(customerEmail) THEN "rejected"
  ELSE IF ~Truthy(orderNumber) \/ ~Truthy(customerName) \/ ItemsMissing(items)
  THEN "rejected"
  ELSE "pass"

readyTry(tr, customerName, items) ==
  IF generateReadyEmailTemplateThrows(customerName, items) \/ tr = "unset"
  THEN "caught" ELSE "send"

preparingTry(tr, customerName, items) ==
  IF generatePreparingEmailTemplateThrows(customerName, items) \/ tr = "unset"
  THEN "caught" ELSE "send"

(* A catch clause that throws the error again. *)
catchRethrows == "threw"

(* What the catch clause of a delivery returns. *)
catchResult == "false"

(* A call whose guard clauses return true. *)
BeginRejectedReturnsTrue(kind, step, o, n, e, i, f) ==
  /\ req' = [kind |-> kind, orderNumber |-> o, customerName |-> n,
             customerEmail |-> e, items |-> i, failFirst |-> f]
  /\ IF step = "send"
     THEN /\ pc' = "sending"
          /\ timeline' = <<"send">>
          /\ result' = "none"
     ELSE /\ pc' = "done"
          /\ timeline' = <<>>
          /\ result' = IF step = "caught" THEN catchResult ELSE "true"
  /\ UNCHANGED <<env, transporter, isConfigured, verify>>
  /\ UNCHANGED routerVars

(* The effect of a call that is not in progress yet (pc = "idle"), from   *)
(* its entry to the first await or to its return.                         *)
Begin(kind, step, o, n, e, i, f) ==
  /\ req' = [kind |-> kind, orderNumber |-> o, customerName |-> n,
             customerEmail |-> e, items |-> i, failFirst |-> f]
  /\ IF step = "send"
     THEN /\ pc' = "sending"
          /\ timeline' = <<"send">>
          /\ result' = "none"
     ELSE /\ pc' = "done"
          /\ timeline' = <<>>
          /\ result' = IF step = "caught" THEN catchResult ELSE "false"
  /\ UNCHANGED <<env, transporter, isConfigured, verify>>
  /\ UNCHANGED routerVars

sendOrderReadyNotificationOn(O, N, E, I, F) ==
  /\ pc = "idle"
  /\ \E o \in O, n \in N, e \in E, i \in I, f \in F :
    Begin("ready",
          IF readyGuards(isConfigured, o, n, e, i) = "rejected" THEN "rejected"
          ELSE readyTry(transporter, n, i),
          o, n, e, i, f)

sendOrderPreparingNotificationOn(O, N, E, I, F) ==
  /\ pc = "idle"
  /\ \E o \in O, n \in N, e \in E, i \in I, f \in F :
    Begin("preparing",
          IF preparingGuards(isConfigured, o, n, e, i) = "rejected" THEN "rejected"
          ELSE preparingTry(transporter, n, i),
          o, n, e, i, f)

(* Calls with every combination of the argument values, the address drawn  *)
(* from the sample addresses.                                              *)
sendOrderReadyNotification ==
  sendOrderReadyNotificationOn(OrderNumbers, Names, EmailSamples, ItemLists, FailCounts)

sendOrderPreparingNotification ==
  sendOrderPreparingNotificationOn(OrderNumbers, Names, EmailSamples, ItemLists, FailCounts)

(* Calls with every address up to MaxEmailLen characters, every order      *)
(* number and customer name, an empty and a non-empty item list, on a      *)
(* transport that accepts the message or rejects it.                       *)
sendOrderReadyNotificationAnyEmail ==
  sendOrderReadyNotificationOn(OrderNumbers, Names, Emails, SomeItemLists, {0, 1})

sendOrderPreparingNotificationAnyEmail ==
  sendOrderPreparingNotificationOn(OrderNumbers, Names, Emails, SomeItemLists, {0, 1})

(***************************************************************************)
(* The transport.  The k-th invocation of sendMail for a request rejects   *)
(* when k <= failFirst and resolves otherwise.                             *)
(***************************************************************************)
Count(s, x) == Cardinality({k \in 1..Len(s) : s[k] = x})

sendCalls == Count(timeline, "send")

TransportFails(r, k) == k <= r.failFirst

(* A delivery that goes on to another sendMail after a success. *)
SendResolvesAndContinues ==
  /\ pc = "sending"
  /\ Len(timeline) < 6
  /\ ~TransportFails(req, sendCalls)
  /\ timeline' = timeline \o <<"ok", "send">>
  /\ result' = "none"
  /\ pc' = "sending"
  /\ UNCHANGED <<env, transporter, isConfigured, verify, req>>
  /\ UNCHANGED routerVars

(* await sendMail resolves: the delivery logs and returns true. *)
SendResolves ==
  /\ pc = "sending"
  /\ ~TransportFails(req, sendCalls)
  /\ timeline' = Append(timeline, "ok")
  /\ result' = "true"
  /\ pc' = "done"
  /\ UNCHANGED <<env, transporter, isConfigured, verify, req>>
  /\ UNCHANGED routerVars

(* A rejection that is swallowed without settling the delivery. *)
SendRejectsNeverSettles ==
  /\ pc = "sending"
  /\ TransportFails(req, sendCalls)
  /\ UNCHANGED vars

(* await sendMail rejects: the catch clause logs and returns false. *)
SendRejects ==
  /\ pc = "sending"
  /\ TransportFails(req, sendCalls)
  /\ timeline' = Append(timeline, "fail")
  /\ result' = catchResult
  /\ pc' = "done"
  /\ UNCHANGED <<env, transporter, isConfigured, verify, req>>
  /\ UNCHANGED routerVars

Next ==
  \/ VerifySucceeds
  \/ VerifyFails
  \/ sendOrderReadyNotification
  \/ sendOrderPreparingNotification
  \/ SendResolves
  \/ SendRejects

Spec == Init /\ [][Next]_vars

NextAnyEmail ==
  \/ VerifySucceeds
  \/ VerifyFails
  \/ sendOrderReadyNotificationAnyEmail
  \/ sendOrderPreparingNotificationAnyEmail
  \/ SendResolves
  \/ SendRejects

SpecAnyEmail == Init /\ [][NextAnyEmail]_vars

(* The transport settles every call it was given. *)
FairSpec == Spec /\ WF_vars(SendResolves) /\ WF_vars(SendRejects)

TypeOK ==
  /\ env \in Envs
  /\ transporter \in {"unset", "set"}
  /\ isConfigured \in BOOLEAN
  /\ verify \in {"none", "pending", "ok", "failed"}
  /\ pc \in {"idle", "sending", "done"}
  /\ result \in {"none", "true", "false", "threw"}

(***************************************************************************)
(* Notification model: buildNotification(eventType, eventPayload).         *)
(* NoNotification stands for null.  The message is the text of the event   *)
(* type (here its name) followed by the order reference; a missing         *)
(* reference is replaced by a placeholder.                                 *)
(***************************************************************************)
RecognizedTypes ==
  {"order.created", "order.received", "order.preparing", "order.ready", "order.cancelled"}

EventTypes == RecognizedTypes \cup {"order.unknown"}

Placeholder == Str(<<"?">>)

(* The mapping with order.preparing among the info kinds. *)
notificationKindPreparingInfo(eventType) ==
  CASE eventType \in {"order.created", "order.received", "order.preparing"} -> "info"
    [] eventType = "order.cancelled" -> "warning"
    [] eventType = "order.ready" -> "success"
    [] OTHER -> "none"

notificationKind(eventType) ==
  CASE eventType \in {"order.created", "order.received"} -> "info"
    [] eventType \in {"order.preparing", "order.cancelled"} -> "warning"
    [] eventType = "order.ready" -> "success"
    [] OTHER -> "none"

orderReference(payload) ==
  IF payload = Undefined THEN Placeholder
  ELSE IF Truthy(payload.orderNumber) THEN payload.orderNumber
  ELSE Placeholder

buildNotification(eventType, payload, id) ==
  IF eventType \notin RecognizedTypes THEN NoNotification
  ELSE [id |-> id,
        kind |-> notificationKind(eventType),
        orderId |-> orderReference(payload),
        message |-> <<Str(<<eventType>>), orderReference(payload)>>]

(***************************************************************************)
(* Subscriber registry: register, unregister, broadcast.                   *)
(***************************************************************************)
Range(s) == {s[k] : k \in 1..Len(s)}

(* A removal by the position of the handle, which takes the last handle    *)
(* when the handle is absent.                                              *)
unregisterSplice(registry, h) ==
  IF \E k \in 1..Len(registry) : registry[k] = h
  THEN SelectSeq(registry, LAMBDA x : x # h)
  ELSE SubSeq(registry, 1, Len(registry) - 1)

(* unregister: removal of an absent handle is a no-op. *)
unregister(registry, h) == SelectSeq(registry, LAMBDA x : x # h)

(* broadcast: the write to every registered handle is attempted; a handle  *)
(* whose write fails is unregistered, the other ones get the payload.      *)
broadcastHandles(registry, failing) == SelectSeq(registry, LAMBDA x : x \notin failing)

(* A write that puts the payload in front of what the handle received. *)
writeInFront(log, id) == <<id>> \o log

(* The write of a payload to a handle: the client receives it after all    *)
(* what it received before.                                                *)
write(log, id) == Append(log, id)

(* A broadcast that stops at the first handle whose write fails. *)
broadcastReceivedStopsAtFailure(registry, log, failing, id) ==
  [h \in HandleIds |->
     IF \E k \in 1..Len(registry) :
          registry[k] = h /\ \A j \in 1..k : registry[j] \notin failing
     THEN write(log[h], id) ELSE log[h]]

broadcastReceived(registry, log, failing, id) ==
  [h \in HandleIds |->
     IF h \in Range(registry) /\ h \notin failing THEN write(log[h], id) ELSE log[h]]

(* A client connects; at most n handles are ever registered. *)
RegisterUpTo(n) ==
  /\ nextHandle <= n
  /\ handles' = Append(handles, nextHandle)
  /\ nextHandle' = nextHandle + 1
  /\ UNCHANGED <<received, consumed, lastEvent, lastBroadcast, detached, crashed, pass>>
  /\ UNCHANGED <<serviceVars, callVars>>

(* The connection of a handle that was registered once signals closure. *)
Unregister ==
  /\ \E h \in 1..(nextHandle - 1) : handles' = unregister(handles, h)
  /\ UNCHANGED <<nextHandle, received, consumed, lastEvent, lastBroadcast, detached, crashed, pass>>
  /\ UNCHANGED <<serviceVars, callVars>>

(***************************************************************************)
(* Inbound events.  An undecodable message has decodable = FALSE; a        *)
(* decodable one has a type and a data object, which can be missing.       *)
(***************************************************************************)
(* The data of the end-to-end scenario, and the same data with one field   *)
(* empty or missing.                                                       *)
ScenarioData ==
  [orderNumber |-> Str(<<"O", "1">>),
   customerName |-> Str(<<"A", "n", "a">>),
   customerEmail |-> Str(<<"a", "@", "a", ".", "a">>),
   items |-> Array(<<Str(<<"T", "a", "c", "o">>)>>)]

Payloads ==
  {ScenarioData,
   [ScenarioData EXCEPT !.orderNumber = Str(<<>>)],
   [ScenarioData EXCEPT !.customerName = Str(<<>>)],
   [ScenarioData EXCEPT !.customerEmail = Str(<<>>)],
   [ScenarioData EXCEPT !.customerEmail = Undefined],
   [ScenarioData EXCEPT !.items = Undefined]}

Malformed == [decodable |-> FALSE, type |-> "", data |-> Undefined]

Events ==
  {Malformed}
    \cup [decodable : {TRUE}, type : EventTypes, data : Payloads]
    \cup [decodable : {TRUE}, type : EventTypes, data : {Undefined}]

(***************************************************************************)
(* Event router.                                                           *)
(***************************************************************************)
(* The test with a misspelt event type. *)
isReadyEventTypo(ev) == ev.type = "order.redy" /\ ev.data # Undefined

(* event.type === 'order.ready' && event.data *)
isReadyEvent(ev) == ev.type = "order.ready" /\ ev.data # Undefined

(* The same test for the preparing kind. *)
isPreparingEvent(ev) == ev.type = "order.preparing" /\ ev.data # Undefined

(* The test without the recipient address. *)
deliveryFieldsPresentNoEmail(data) ==
  Truthy(data.orderNumber) /\ Truthy(data.customerName)

(* orderNumber && customerName && customerEmail *)
deliveryFieldsPresent(data) ==
  Truthy(data.orderNumber) /\ Truthy(data.customerName) /\ Truthy(data.customerEmail)

(* A router that starts the ready delivery for an event of any type. *)
deliveryKindAnyType(ev) ==
  IF ~ev.decodable THEN "none"
  ELSE IF ev.data # Undefined /\ deliveryFieldsPresent(ev.data) THEN "ready"
  ELSE "none"

(* Which delivery the router starts for an event: "ready", "preparing" or  *)
(* "none".                                                                 *)
deliveryKind(ev) ==
  IF ~ev.decodable THEN "none"
  ELSE IF isReadyEvent(ev) /\ deliveryFieldsPresent(ev.data) THEN "ready"
  ELSE IF isPreparingEvent(ev) /\ deliveryFieldsPresent(ev.data) THEN "preparing"
  ELSE "none"

(* The state of a delivery when its call reaches the first await or        *)
(* returns: what Begin leaves in pc, req, timeline and result.             *)
startedDelivery(event, kind, step, o, n, e, i, f) ==
  [event |-> event,
   pc |-> IF step = "send" THEN "sending" ELSE "done",
   req |-> [kind |-> kind, orderNumber |-> o, customerName |-> n,
            customerEmail |-> e, items |-> i, failFirst |-> f],
   timeline |-> IF step = "send" THEN <<"send">> ELSE <<>>,
   result |-> IF step = "send" THEN "none"
              ELSE IF step = "caught" THEN catchResult ELSE "false"]

readyStep(o, n, e, i) ==
  IF readyGuards(isConfigured, o, n, e, i) = "rejected" THEN "rejected"
  ELSE readyTry(transporter, n, i)

preparingStep(o, n, e, i) ==
  IF preparingGuards(isConfigured, o, n, e, i) = "rejected" THEN "rejected"
  ELSE preparingTry(transporter, n, i)

(* The delivery the router starts for an event with its data. *)
routerDelivery(event, kind, data, f) ==
  startedDelivery(event, kind,
                  IF kind = "ready"
                  THEN readyStep(data.orderNumber, data.customerName,
                                 data.customerEmail, data.items)
                  ELSE preparingStep(data.orderNumber, data.customerName,
                                     data.customerEmail, data.items),
                  data.orderNumber, data.customerName, data.customerEmail,
                  data.items, f)

(* A router that awaits every delivery it started. *)
awaitedDeliveriesAll(deliveries) == 1..Len(deliveries)

(* The deliveries the router waits for before it returns: none, the        *)
(* promise only gets a catch handler.                                      *)
awaitedDeliveries(deliveries) == {}

(* A router that lets the decode error of a malformed message escape. *)
routerRaisesOnMalformed(ev, failing) == ~ev.decodable

(* Whether an error of the event leaves the router: every failure below    *)
(* the router is caught and logged.                                        *)
routerRaises(ev, failing) == FALSE

(* handle(rawEvent) for the event ev, with the handles in failing refusing *)
(* the write and the transport rejecting the first f send calls: decode,   *)
(* build the notification, broadcast it, start the delivery and return.    *)
Route(ev, failing, f) ==
  LET id == consumed + 1
      notification == IF ev.decodable
                      THEN buildNotification(ev.type, ev.data, id)
                      ELSE NoNotification
      kind == deliveryKind(ev)
  IN /\ consumed' = id
     /\ lastEvent' = ev
     /\ IF notification = NoNotification
        THEN /\ lastBroadcast' = NoBroadcast
             /\ UNCHANGED <<handles, received>>
        ELSE /\ lastBroadcast' = [notification |-> notification,
                                  attempted |-> handles,
                                  failed |-> failing]
             /\ handles' = broadcastHandles(handles, failing)
             /\ received' = broadcastReceived(handles, received, failing, id)
     /\ IF kind = "none"
        THEN UNCHANGED detached
        ELSE detached' = Append(detached, routerDelivery(id, kind, ev.data, f))
     /\ crashed' = routerRaises(ev, failing)
     /\ UNCHANGED <<nextHandle, pass>>
     /\ UNCHANGED <<serviceVars, callVars>>

(* The consumption stream hands the next event, one of E, to the router. *)
HandleEventOf(E) ==
  /\ consumed < MaxEvents
  /\ ~crashed
  /\ \A d \in awaitedDeliveries(detached) : detached[d].pc = "done"
  /\ \E ev \in E, failing \in SUBSET Range(handles), f \in {0, 1} :
       /\ (ev.decodable /\ ev.type \in RecognizedTypes) \/ failing = {}
       /\ deliveryKind(ev) # "none" \/ f = 0
       /\ Route(ev, failing, f)

(* A service that remembers a failed delivery and gives up the later ones. *)
DetachedSendResolvesAfterFailure ==
  /\ \E d \in 1..Len(detached) :
       /\ detached[d].pc = "sending"
       /\ ~TransportFails(detached[d].req, Count(detached[d].timeline, "send"))
       /\ detached' = [detached EXCEPT ![d] =
                         [@ EXCEPT !.pc = "done",
                                   !.timeline = Append(@, "ok"),
                                   !.result =
                                     IF \E e \in 1..Len(detached) :
                                          detached[e].result = "false"
                                     THEN "false" ELSE "true"]]
  /\ UNCHANGED <<handles, nextHandle, received, consumed, lastEvent, lastBroadcast, crashed, pass>>
  /\ UNCHANGED <<serviceVars, callVars>>

(* await sendMail of a detached delivery resolves: it returns true. *)
DetachedSendResolves ==
  /\ \E d \in 1..Len(detached) :
       /\ detached[d].pc = "sending"
       /\ ~TransportFails(detached[d].req, Count(detached[d].timeline, "send"))
       /\ detached' = [detached EXCEPT ![d] =
                         [@ EXCEPT !.pc = "done",
                                   !.timeline = Append(@, "ok"),
                                   !.result = "true"]]
  /\ UNCHANGED <<handles, nextHandle, received, consumed, lastEvent, lastBroadcast, crashed, pass>>
  /\ UNCHANGED <<serviceVars, callVars>>

(* A catch that also closes the live connections. *)
DetachedSendRejectsClosesChannel ==
  /\ \E d \in 1..Len(detached) :
       /\ detached[d].pc = "sending"
       /\ TransportFails(detached[d].req, Count(detached[d].timeline, "send"))
       /\ detached' = [detached EXCEPT ![d] =
                         [@ EXCEPT !.pc = "done",
                                   !.timeline = Append(@, "fail"),
                                   !.result = catchResult]]
  /\ handles' = <<>>
  /\ UNCHANGED <<nextHandle, received, consumed, lastEvent, lastBroadcast, crashed, pass>>
  /\ UNCHANGED <<serviceVars, callVars>>

(* await sendMail of a detached delivery rejects: its catch returns false. *)
DetachedSendRejects ==
  /\ \E d \in 1..Len(detached) :
       /\ detached[d].pc = "sending"
       /\ TransportFails(detached[d].req, Count(detached[d].timeline, "send"))
       /\ detached' = [detached EXCEPT ![d] =
                         [@ EXCEPT !.pc = "done",
                                   !.timeline = Append(@, "fail"),
                                   !.result = catchResult]]
  /\ UNCHANGED <<handles, nextHandle, received, consumed, lastEvent, lastBroadcast, crashed, pass>>
  /\ UNCHANGED <<serviceVars, callVars>>

(* The service with its credentials set or its password missing. *)
RouterEnvs ==
  {[host |-> TRUE, user |-> TRUE, password |-> TRUE],
   [host |-> TRUE, user |-> TRUE, password |-> FALSE]}

InitRouter == Init /\ env \in RouterEnvs

Register == RegisterUpTo(MaxSubscribers)

HandleEvent == HandleEventOf(Events)

NextRouter ==
  \/ VerifySucceeds
  \/ VerifyFails
  \/ Register
  \/ Unregister
  \/ HandleEvent
  \/ DetachedSendResolves
  \/ DetachedSendRejects

SpecRouter == InitRouter /\ [][NextRouter]_vars

(* The registry alone: clients connect and disconnect, and the router      *)
(* broadcasts the notifications of events that start no delivery.          *)
RegistryEvents ==
  {[decodable |-> TRUE, type |-> "order.created", data |-> ScenarioData]}

RegisterHandle == RegisterUpTo(MaxHandles)

Broadcast == HandleEventOf(RegistryEvents)

NextRegistry ==
  \/ RegisterHandle
  \/ Unregister
  \/ Broadcast

SpecRegistry == InitRouter /\ [][NextRegistry]_vars

(***************************************************************************)
(* The broadcast pass write by write.  broadcast takes a snapshot of the   *)
(* handle set and then writes to the handles of the snapshot one after the *)
(* other; clients connect and connections close between two writes.        *)
(***************************************************************************)
(* A snapshot of every handle that was ever registered. *)
snapshotEverRegistered(registry) ==
  [k \in 1..(nextHandle - 1) |-> k]

(* The snapshot broadcast takes of the handle set before it writes. *)
snapshot(registry) == registry

(* A removal by the position of the handle, which takes the last handle    *)
(* when the handle was removed before.                                     *)
removeOnWriteFailureByPosition(registry, h) ==
  IF \E k \in 1..Len(registry) : registry[k] = h
  THEN SelectSeq(registry, LAMBDA x : x # h)
  ELSE SubSeq(registry, 1, Len(registry) - 1)

(* The handle whose write failed is unregistered by the broadcast call. *)
removeOnWriteFailure(registry, h) == unregister(registry, h)

(* The connection of a handle is open as long as the handle is registered: *)
(* its closure unregisters it.                                             *)
connectionOpen(registry, h) == h \in Range(registry)

(* An event that starts no delivery and the ready event of the scenario. *)
PassEvents ==
  RegistryEvents \cup {[decodable |-> TRUE, type |-> "order.ready", data |-> ScenarioData]}

(* The router hands a notification to broadcast, which takes its snapshot. *)
BeginPass ==
  /\ consumed < MaxEvents
  /\ ~crashed
  /\ ~pass.active
  /\ \E ev \in PassEvents :
       LET id == consumed + 1
       IN /\ consumed' = id
          /\ lastEvent' = ev
          /\ lastBroadcast' = [notification |-> buildNotification(ev.type, ev.data, id),
                               attempted |-> snapshot(handles),
                               failed |-> {}]
          /\ pass' = [active |-> TRUE, id |-> id, todo |-> snapshot(handles),
                      closed |-> {}]
  /\ UNCHANGED <<handles, nextHandle, received, detached, crashed>>
  /\ UNCHANGED <<serviceVars, callVars>>

(* The write to the next handle of the snapshot succeeds. *)
WriteSucceeds ==
  /\ pass.active
  /\ pass.todo # <<>>
  /\ connectionOpen(handles, Head(pass.todo))
  /\ received' = [received EXCEPT ![Head(pass.todo)] = write(@, pass.id)]
  /\ pass' = [pass EXCEPT !.todo = Tail(@)]
  /\ UNCHANGED <<handles, nextHandle, consumed, lastEvent, lastBroadcast, detached, crashed>>
  /\ UNCHANGED <<serviceVars, callVars>>

(* The write to the next handle of the snapshot fails: the handle is       *)
(* unregistered and the pass goes on.                                      *)
WriteFails ==
  /\ pass.active
  /\ pass.todo # <<>>
  /\ handles' = removeOnWriteFailure(handles, Head(pass.todo))
  /\ lastBroadcast' = [lastBroadcast EXCEPT !.failed = @ \cup {Head(pass.todo)}]
  /\ pass' = [pass EXCEPT !.todo = Tail(@)]
  /\ UNCHANGED <<nextHandle, received, consumed, lastEvent, detached, crashed>>
  /\ UNCHANGED <<serviceVars, callVars>>

(* A router that goes on without waiting for the end of the pass. *)
passFinishedEarly(p) == TRUE

(* 3. SSE Broadcast, 4. Send Email: the router goes on to the delivery     *)
(* when the pass visited every handle of its snapshot.                     *)
passFinished(p) == p.todo = <<>>

(* broadcast returns and the router starts the delivery, if the event      *)
(* qualifies for one, on a transport rejecting the first f send calls.     *)
EndPass ==
  /\ pass.active
  /\ passFinished(pass)
  /\ pass' = [pass EXCEPT !.active = FALSE]
  /\ \E f \in {0, 1} :
       IF deliveryKind(lastEvent) = "none"
       THEN f = 0 /\ UNCHANGED detached
       ELSE detached' = Append(detached,
                               routerDelivery(pass.id, deliveryKind(lastEvent),
                                              lastEvent.data, f))
  /\ UNCHANGED <<handles, nextHandle, received, consumed, lastEvent, lastBroadcast, crashed>>
  /\ UNCHANGED <<serviceVars, callVars>>

(* The connection of a handle signals closure, also in the middle of a     *)
(* pass and also twice: the handle is unregistered.                        *)
ConnectionCloses ==
  /\ \E h \in 1..(nextHandle - 1) :
       /\ handles' = unregister(handles, h)
       /\ pass' = IF pass.active THEN [pass EXCEPT !.closed = @ \cup {h}] ELSE pass
  /\ UNCHANGED <<nextHandle, received, consumed, lastEvent, lastBroadcast, detached, crashed>>
  /\ UNCHANGED <<serviceVars, callVars>>

(* A client connects while passes are observed write by write. *)
RegisterConnection == RegisterUpTo(MaxConnections)

NextPass ==
  \/ RegisterConnection
  \/ ConnectionCloses
  \/ BeginPass
  \/ WriteSucceeds
  \/ WriteFails
  \/ EndPass
  \/ DetachedSendResolves
  \/ DetachedSendRejects

SpecPass == InitRouter /\ [][NextPass]_vars

(***************************************************************************)
(* Properties.                                                             *)
(***************************************************************************)
CredentialsPresent == env.host /\ env.user /\ env.password

NonEmptyString(v) == v.type = "string" /\ v.val # <<>>

(* The shape local-part "@" domain-with-dot: one "@", no white space, a    *)
(* non-empty local part, and a dot inside the domain that is neither its   *)
(* first nor its last character.                                           *)
HasAddressShape(v) ==
  /\ v.type = "string"
  /\ Count(v.val, "@") = 1
  /\ Count(v.val, " ") = 0
  /\ LET at == CHOOSE i \in 1..Len(v.val) : v.val[i] = "@"
     IN /\ at > 1
        /\ \E j \in (at + 2)..(Len(v.val) - 1) : v.val[j] = "."

(* A non-empty array of items whose names are strings. *)
RenderableItems(v) ==
  /\ v.type = "array"
  /\ Len(v.val) >= 1
  /\ \A k \in 1..Len(v.val) : v.val[k].type = "string"

Taco == Str(<<"T", "a", "c", "o">>)
Ana == Str(<<"A", "n", "a">>)
Order1 == Str(<<"O", "1">>)
ValidAddress == Str(<<"a", "@", "a", ".", "a">>)

(* The request of the specification's end-to-end scenario. *)
ScenarioRequest ==
  /\ req.orderNumber = Order1
  /\ req.customerName = Ana
  /\ req.customerEmail = ValidAddress
  /\ req.items = Array(<<Taco>>)

(* C1: a delivery that reached the send call on a transport that rejects   *)
(* every invocation ends after exactly 3 invocations with the failure      *)
(* outcome (false).                                                        *)
C1_AlwaysFailingThreeSends ==
  (pc = "done" /\ sendCalls >= 1 /\ req.failFirst >= MaxAttempts)
    => (sendCalls = MaxAttempts /\ result = "false")

(* C2: a delivery whose first send call is rejected and whose second       *)
(* would succeed ends after exactly 2 invocations with the outcome true.   *)
C2_FailOnceThenDelivered ==
  (pc = "done" /\ sendCalls >= 1 /\ req.failFirst = 1)
    => (sendCalls = 2 /\ result = "true")

(* C3: a delivery whose address has not the shape local-part "@"           *)
(* domain-with-dot, or is empty or not a string, never invokes the send    *)
(* call and returns false.                                                 *)
C3_InvalidAddressRejected ==
  (pc # "idle" /\ ~HasAddressShape(req.customerEmail))
    => (pc = "done" /\ sendCalls = 0 /\ result = "false")

C3_Witness ==
  /\ pc = "done"
  /\ isConfigured
  /\ req.customerEmail = Str(<<"a", "@", "a">>)
  /\ req.customerName = Ana
  /\ req.orderNumber = Order1
  /\ req.items = Array(<<Taco>>)
  /\ sendCalls = 0
  /\ result = "false"

(* C4: with SMTP_HOST, SMTP_USER or SMTP_PASSWORD missing, every delivery  *)
(* returns false without throwing and without any send call.               *)
C4_UnconfiguredRejects ==
  ~CredentialsPresent
    => /\ ~isConfigured
       /\ pc # "sending"
       /\ sendCalls = 0
       /\ (pc = "done" => result = "false")

C4_Witness ==
  /\ ~CredentialsPresent
  /\ env.host
  /\ pc = "done"
  /\ ScenarioRequest
  /\ result = "false"

(* C5: a delivery whose recipient address, customer name or order          *)
(* reference is empty or missing returns false and makes no send call.     *)
C5_MissingFieldRejected ==
  (pc # "idle" /\ (~Truthy(req.customerEmail) \/ ~Truthy(req.customerName)
                     \/ ~Truthy(req.orderNumber)))
    => (pc = "done" /\ sendCalls = 0 /\ result = "false")

C5_Witness ==
  /\ pc = "done"
  /\ isConfigured
  /\ req.customerEmail = ValidAddress
  /\ req.customerName = Str(<<>>)
  /\ req.orderNumber = Order1
  /\ req.items = Array(<<Taco>>)
  /\ result = "false"

C7_NeverThrows ==
  /\ result # "threw"
  /\ (pc = "done" => result \in {"true", "false"})

C7_Witness ==
  /\ pc = "done"
  /\ timeline = <<"send", "fail">>
  /\ result = "false"

(* C8: a delivery has at most one successful send call, and a successful   *)
(* send call is the last thing it does: it is done with the outcome true.  *)
C8_SuccessIsFinal ==
  /\ Count(timeline, "ok") <= 1
  /\ (Count(timeline, "ok") = 1
        => /\ pc = "done"
           /\ result = "true"
           /\ timeline[Len(timeline)] = "ok")

C8_Witness ==
  /\ pc = "done"
  /\ Count(timeline, "ok") = 1
  /\ req.kind = "preparing"

(* C9: the first send call is made without a wait; a delivery whose first  *)
(* send call failed waits 2 seconds and makes a second one, and one whose  *)
(* second send call failed waits 4 seconds and makes a third one.          *)
C9_BackoffBeforeRetry ==
  /\ (timeline # <<>> => timeline[1] = "send")
  /\ (pc = "done" /\ Len(timeline) >= 2 /\ timeline[2] = "fail")
       => /\ Len(timeline) >= 4
          /\ timeline[3] = "wait2"
          /\ timeline[4] = "send"
  /\ (pc = "done" /\ Len(timeline) >= 5 /\ timeline[5] = "fail")
       => /\ Len(timeline) >= 7
          /\ timeline[6] = "wait4"
          /\ timeline[7] = "send"

(* The terminal states.  The failure after the send call is the state the  *)
(* specification calls ExhaustedRetries.                                   *)
Delivered == pc = "done" /\ result = "true"
Rejected == pc = "done" /\ result = "false" /\ sendCalls = 0
ExhaustedRetries == pc = "done" /\ result = "false" /\ sendCalls >= 1

(* C10: a started delivery eventually is in exactly one of the terminal    *)
(* states Delivered, ExhaustedRetries, Rejected, and a terminal delivery   *)
(* makes no further send call.                                             *)
C10_Terminates ==
  /\ (pc # "idle") ~> (pc = "done")
  /\ [](pc = "done"
          => \/ (Delivered /\ ~Rejected /\ ~ExhaustedRetries)
             \/ (~Delivered /\ Rejected /\ ~ExhaustedRetries)
             \/ (~Delivered /\ ~Rejected /\ ExhaustedRetries))
  /\ [][pc = "done" => (pc' = "done" /\ timeline' = timeline /\ result' = result)]_vars

C10_Witness ==
  /\ ExhaustedRetries
  /\ verify = "pending"
  /\ req.failFirst = 2

(***************************************************************************)
(* Properties of the event router and of the subscriber registry.          *)
(***************************************************************************)
InFlight == {d \in 1..Len(detached) : detached[d].pc = "sending"}

(* The step is the handling of one event. *)
Handled == consumed' = consumed + 1

(* The handles a broadcast wrote to successfully. *)
Written(b) == Range(b.attempted) \ b.failed

(* C11: the router does not wait for a delivery it started: while a        *)
(* delivery is in flight the next event can be handed to the router, and   *)
(* no delivery state blocks the consumption.                               *)
C11_ConsumptionNotBlocked ==
  (consumed < MaxEvents) => ENABLED HandleEvent

C11_Witness ==
  /\ consumed = 2
  /\ Len(detached) = 1
  /\ detached[1].event = 1
  /\ detached[1].pc = "sending"
  /\ received[1] = <<1, 2>>

(* C12: for an order.ready event with non-empty orderNumber, customerName  *)
(* and customerEmail the router broadcasts one notification of kind        *)
(* success that contains the order reference and starts exactly one        *)
(* delivery, addressed to the customerEmail of the payload.                *)
C12_ReadyBroadcastAndOneDelivery ==
  [][(/\ Handled
      /\ lastEvent'.decodable
      /\ lastEvent'.type = "order.ready"
      /\ lastEvent'.data # Undefined
      /\ Truthy(lastEvent'.data.orderNumber)
      /\ Truthy(lastEvent'.data.customerName)
      /\ Truthy(lastEvent'.data.customerEmail))
       => /\ lastBroadcast'.notification.kind = "success"
          /\ lastEvent'.data.orderNumber \in Range(lastBroadcast'.notification.message)
          /\ \A h \in Written(lastBroadcast') :
               received'[h] = Append(received[h], lastBroadcast'.notification.id)
          /\ Len(detached') = Len(detached) + 1
          /\ \A d \in 1..Len(detached) : detached'[d] = detached[d]
          /\ detached'[Len(detached')].event = consumed'
          /\ detached'[Len(detached')].req.kind = "ready"
          /\ detached'[Len(detached')].req.customerEmail = lastEvent'.data.customerEmail]_vars

C12_Witness ==
  /\ consumed = 1
  /\ lastEvent = [decodable |-> TRUE, type |-> "order.ready", data |-> ScenarioData]
  /\ lastBroadcast.notification.kind = "success"
  /\ received[1] = <<1>>
  /\ Len(detached) = 1
  /\ detached[1].req.customerEmail = ValidAddress
  /\ detached[1].pc = "sending"

(* C13: for an order.ready event whose customerEmail, customerName or      *)
(* orderNumber is empty or missing, the router still broadcasts the        *)
(* notification and starts no delivery: no send call is made for it.       *)
C13_MissingFieldBroadcastOnly ==
  [][(/\ Handled
      /\ lastEvent'.decodable
      /\ lastEvent'.type = "order.ready"
      /\ \/ lastEvent'.data = Undefined
         \/ ~Truthy(lastEvent'.data.orderNumber)
         \/ ~Truthy(lastEvent'.data.customerName)
         \/ ~Truthy(lastEvent'.data.customerEmail))
       => /\ lastBroadcast'.notification.kind = "success"
          /\ lastBroadcast'.attempted = handles
          /\ \A h \in Written(lastBroadcast') :
               received'[h] = Append(received[h], consumed')
          /\ detached' = detached]_vars

C13_Witness ==
  /\ consumed = 1
  /\ isConfigured
  /\ lastEvent = [decodable |-> TRUE, type |-> "order.ready",
                  data |-> [ScenarioData EXCEPT !.customerEmail = Str(<<>>)]]
  /\ lastBroadcast.notification.kind = "success"
  /\ received[1] = <<1>>
  /\ detached = <<>>

(* C14: a delivery is started only for events of type order.ready or       *)
(* order.preparing: an event of type order.created, order.received,        *)
(* order.cancelled or of an unrecognized type starts none, whatever its    *)
(* payload, and every started delivery is of the ready or preparing kind.  *)
C14_OnlyReadyOrPreparingDeliver ==
  [][/\ (Handled /\ lastEvent'.type \notin {"order.ready", "order.preparing"})
          => detached' = detached
     /\ \A d \in 1..Len(detached') :
          detached'[d].req.kind \in {"ready", "preparing"}]_vars

C14_Witness ==
  /\ consumed = 1
  /\ isConfigured
  /\ lastEvent = [decodable |-> TRUE, type |-> "order.cancelled", data |-> ScenarioData]
  /\ lastBroadcast.notification.kind = "warning"
  /\ received[1] = <<1>>
  /\ detached = <<>>

(* C15: buildNotification returns for every recognized event type a        *)
(* notification that is not null and whose kind is info for order.created  *)
(* and order.received, warning for order.preparing and order.cancelled,    *)
(* success for order.ready; for every unrecognized type it returns null    *)
(* and nothing is broadcast.                                               *)
C15_KindFollowsMapping ==
  [][(Handled /\ lastEvent'.decodable)
       => LET t == lastEvent'.type
              n == lastBroadcast'.notification
          IN /\ t \in {"order.created", "order.received"}
                  => (n # NoNotification /\ n.kind = "info")
             /\ t \in {"order.preparing", "order.cancelled"}
                  => (n # NoNotification /\ n.kind = "warning")
             /\ t = "order.ready"
                  => (n # NoNotification /\ n.kind = "success")
             /\ t \notin {"order.created", "order.received", "order.preparing",
                          "order.cancelled", "order.ready"}
                  => /\ buildNotification(t, lastEvent'.data, consumed') = NoNotification
                     /\ lastBroadcast' = NoBroadcast
                     /\ received' = received
                     /\ handles' = handles]_vars

C15_Witness ==
  /\ consumed = 2
  /\ handles = <<1>>
  /\ received[1] = <<1>>
  /\ lastEvent = [decodable |-> TRUE, type |-> "order.unknown", data |-> ScenarioData]
  /\ lastBroadcast = NoBroadcast

(* C16: a broadcast to N registered handles of which M fail on write       *)
(* removes exactly those M handles from the registry and delivers the      *)
(* payload exactly once to each of the other N - M handles: a failed write *)
(* prevents no other write.                                                *)
C16_BroadcastIsolatesFailures ==
  [][Handled
       => LET b == lastBroadcast'
              ok == Range(handles) \ b.failed
          IN /\ b.attempted = handles
             /\ b.failed \subseteq Range(handles)
             /\ Range(handles') = ok
             /\ Len(handles') = Len(handles) - Cardinality(b.failed)
             /\ \A h \in ok :
                  /\ received'[h] = Append(received[h], b.notification.id)
                  /\ Count(received'[h], b.notification.id) = 1
             /\ \A h \in HandleIds \ ok : received'[h] = received[h]]_vars

C16_Witness ==
  /\ consumed = 1
  /\ lastBroadcast.attempted = <<1, 2, 3>>
  /\ lastBroadcast.failed = {2}
  /\ handles = <<1, 3>>
  /\ received = [h \in HandleIds |-> IF h = 2 THEN <<>> ELSE <<1>>]

(* C17: unregister is idempotent: in every registry state and for every    *)
(* handle, unregistering the handle twice gives the registry that          *)
(* unregistering it once gives, and unregistering a handle that is not     *)
(* registered changes nothing.                                             *)
C17_UnregisterIdempotent ==
  \A h \in HandleIds :
    /\ unregister(unregister(handles, h), h) = unregister(handles, h)
    /\ h \notin Range(unregister(handles, h))
    /\ Range(unregister(handles, h)) = Range(handles) \ {h}
    /\ h \notin Range(handles) => unregister(handles, h) = handles

(* Handle 2 was unregistered while the handles 1 and 3 stay registered. *)
C17_Witness ==
  /\ consumed = 0
  /\ nextHandle = 4
  /\ handles = <<1, 3>>
  /\ unregister(handles, 2) = <<1, 3>>

(* C18: broadcasts reach a live subscriber in the order of arrival of the  *)
(* events: of two events, a subscriber that receives both notifications    *)
(* receives the one of the earlier event first, also while deliveries of   *)
(* earlier events are still running.                                       *)
C18_BroadcastInArrivalOrder ==
  \A h \in HandleIds :
    \A i, j \in 1..Len(received[h]) :
      i < j => received[h][i] < received[h][j]

C18_Witness ==
  /\ consumed = 2
  /\ received[1] = <<1, 2>>
  /\ Len(detached) = 2
  /\ detached[1].event = 1
  /\ detached[1].pc = "sending"
  /\ detached[2].pc = "sending"

(* C19: the router never raises past its own boundary: a malformed or      *)
(* undecodable event is dropped without broadcast and without delivery,    *)
(* and after any failing event (decode error, failed broadcast write,      *)
(* delivery error) the router still handles the next event.                *)
C19_RouterNeverRaises ==
  /\ [](~crashed)
  /\ []((consumed < MaxEvents) => ENABLED HandleEvent)
  /\ [][(Handled /\ ~lastEvent'.decodable)
          => /\ lastBroadcast' = NoBroadcast
             /\ received' = received
             /\ handles' = handles
             /\ detached' = detached]_vars

C19_Witness ==
  /\ consumed = 1
  /\ lastEvent = Malformed
  /\ lastBroadcast = NoBroadcast
  /\ handles = <<1>>
  /\ received[1] = <<>>
  /\ detached = <<>>
  /\ ~crashed
  /\ ENABLED HandleEvent

(* C20: a delivery outcome never feeds back into the live channel: a step  *)
(* of a delivery changes neither the registered handles nor what they      *)
(* received, and what a later broadcast does to the registry and to the    *)
(* handles depends on the registry, the event and the failed writes only,  *)
(* as if no delivery had been started.                                     *)
C20_NoFeedbackIntoLiveChannel ==
  [][/\ (consumed' = consumed /\ detached' # detached)
          => UNCHANGED <<handles, nextHandle, received, lastBroadcast>>
     /\ Handled
          => LET b == lastBroadcast'
             IN IF b = NoBroadcast
                THEN handles' = handles /\ received' = received
                ELSE /\ b.attempted = handles
                     /\ handles' = SelectSeq(handles, LAMBDA x : x \notin b.failed)
                     /\ received' =
                          [h \in HandleIds |->
                             IF h \in Range(handles) \ b.failed
                             THEN Append(received[h], consumed')
                             ELSE received[h]]]_vars

(* The delivery of event 1 failed and the handle got both notifications. *)
C20_Witness ==
  /\ consumed = 2
  /\ handles = <<1>>
  /\ received[1] = <<1, 2>>
  /\ Len(detached) = 1
  /\ detached[1].event = 1
  /\ detached[1].pc = "done"
  /\ detached[1].timeline = <<"send", "fail">>
  /\ detached[1].result = "false"

(***************************************************************************)
(* Properties of the registry under interleaved register, closure and      *)
(* broadcast writes.                                                       *)
(***************************************************************************)
NoDuplicates(registry) ==
  \A i, j \in 1..Len(registry) : registry[i] = registry[j] => i = j

Removed == Range(handles) \ Range(handles')

(* The step is one write of the pass in progress. *)
WriteStep == pass.active /\ pass.todo # <<>> /\ pass'.todo = Tail(pass.todo)

(* C21: under any interleaving of register, connection closure and the     *)
(* writes of a broadcast the registry stays consistent and a handle is     *)
(* removed exactly once: a handle whose write fails while its connection   *)
(* also signals closure is removed once, with no error and without the     *)
(* removal of another handle.                                              *)
C21_RegistryConsistent ==
  /\ [](/\ NoDuplicates(handles)
        /\ Range(handles) \subseteq 1..(nextHandle - 1)
        /\ lastBroadcast.failed \cap Range(handles) = {}
        /\ ~crashed)
  /\ [][ /\ Cardinality(Removed) <= 1
         /\ \/ handles' = SelectSeq(handles, LAMBDA x : x \notin Removed)
            \/ (Removed = {} /\ handles' = Append(handles, nextHandle))
         /\ WriteStep => Removed \subseteq {Head(pass.todo)}
         /\ (WriteStep /\ Head(pass.todo) \in pass.closed)
              => /\ handles' = handles
                 /\ received' = received
                 /\ lastBroadcast'.failed = lastBroadcast.failed \cup {Head(pass.todo)}]_vars

(* The connection of handle 1 closed during the pass and the write to it   *)
(* failed: handle 2 is registered and got the payload.                     *)
C21_Witness ==
  /\ lastBroadcast.attempted = <<1, 2>>
  /\ lastBroadcast.failed = {1}
  /\ 1 \in pass.closed
  /\ handles = <<2>>
  /\ received[1] = <<>>
  /\ received[2] = <<1>>

(***************************************************************************)
(* Properties of the two delivery flows and of the configured flag.        *)
(***************************************************************************)
(* The step is the entry of a call, up to its first await or its return. *)
CallBegins == pc = "idle" /\ pc' # "idle"

(* The step settles the send call the delivery is suspended on. *)
SendSettles == pc = "sending" /\ pc' # "sending"

(* C22: the ready and the preparing flow share the gate and the send       *)
(* policy: for the same orderNumber, customerName, customerEmail and       *)
(* items, the same configuration state and the same transport results      *)
(* both return the same outcome after the same number of send calls.       *)
C22_FlowsEquivalent ==
  [][/\ CallBegins
          => LET ready == readyStep(req'.orderNumber, req'.customerName,
                                    req'.customerEmail, req'.items)
                 preparing == preparingStep(req'.orderNumber, req'.customerName,
                                            req'.customerEmail, req'.items)
             IN /\ ready = preparing
                /\ pc' = IF ready = "send" THEN "sending" ELSE "done"
                /\ Count(timeline', "send") = IF ready = "send" THEN 1 ELSE 0
                /\ result' = IF ready = "send" THEN "none" ELSE "false"
     /\ SendSettles
          => /\ pc' = "done"
             /\ Count(timeline', "send") = sendCalls
             /\ result' = IF TransportFails(req, sendCalls) THEN "false" ELSE "true"]_vars

C22_Witness ==
  /\ pc = "done"
  /\ req.kind = "preparing"
  /\ ScenarioRequest
  /\ req.failFirst = 1
  /\ sendCalls = 1
  /\ result = "false"

C24_TrueIffSendSucceeded ==
  pc = "done"
    => /\ result \in {"true", "false"}
       /\ result = "true" <=> (sendCalls >= 1 /\ timeline[Len(timeline)] = "ok")
       /\ result = "false" <=> (sendCalls = 0 \/ timeline[Len(timeline)] = "fail")

C24_Witness ==
  /\ pc = "done"
  /\ req.kind = "ready"
  /\ ScenarioRequest
  /\ req.failFirst = 0
  /\ timeline = <<"send", "ok">>
  /\ result = "true"

(* C25: a delivery never makes more than 3 send calls, and its number of   *)
(* send calls is 0 when it is Rejected, between 1 and 3 when it is         *)
(* Delivered and exactly 3 when it ends with the failure outcome after a   *)
(* send call (ExhaustedRetries).                                           *)
C25_AttemptCounts ==
  /\ sendCalls <= MaxAttempts
  /\ Rejected => sendCalls = 0
  /\ Delivered => sendCalls \in 1..MaxAttempts
  /\ ExhaustedRetries => sendCalls = MaxAttempts

(* C26: if the start-up verification (verifyConnection) fails, the service *)
(* sends no e-mail: no send call is made for any request on the instance,  *)
(* however the request interleaves with the pending verification.          *)
C26_NoSendIfVerifyFails ==
  verify = "failed" => sendCalls = 0

(***************************************************************************)
(* Properties of the order of the live broadcast and of the deliveries.    *)
(***************************************************************************)
DeliveryStarts == Len(detached') = Len(detached) + 1

(* C27: for an event that qualifies for delivery the broadcast pass to all *)
(* live subscribers is complete before the first send call of the          *)
(* delivery of that event is made.                                         *)
C27_BroadcastBeforeFirstSend ==
  /\ [](pass.active => \A d \in 1..Len(detached) : detached[d].event # pass.id)
  /\ [][DeliveryStarts
          => /\ detached'[Len(detached')].event = pass.id
             /\ pass.todo = <<>>
             /\ \A h \in Range(lastBroadcast.attempted) \ lastBroadcast.failed :
                  received[h] # <<>> /\ received[h][Len(received[h])] = pass.id]_vars

(* The delivery of event 1 made its send call after handle 1 got the       *)
(* notification and the write to handle 2 failed.                          *)
C27_Witness ==
  /\ consumed = 1
  /\ ~pass.active
  /\ lastBroadcast.attempted = <<1, 2>>
  /\ lastBroadcast.failed = {2}
  /\ received[1] = <<1>>
  /\ Len(detached) = 1
  /\ detached[1].event = 1
  /\ detached[1].timeline = <<"send">>

PassBegins == ~pass.active /\ pass'.active

PassEnds == pass.active /\ ~pass'.active

(* C28: a handle that was removed from the registry, by unregister or by a *)
(* failed write, never receives the payload of a later broadcast; a handle *)
(* registered while a pass is writing is not blocked by that pass and      *)
(* receives every broadcast issued after its registration.                 *)
C28_RemovedNeverReceivesNewAlwaysDoes ==
  /\ []((pass.active /\ nextHandle <= MaxConnections) => ENABLED RegisterConnection)
  /\ [][ /\ \A h \in 1..(nextHandle - 1) :
              h \notin Range(handles)
                => (h \notin Range(handles') /\ received'[h] = received[h])
         /\ \A h \in HandleIds :
              received'[h] # received[h]
                => (h \in Range(handles) /\ received'[h] = Append(received[h], pass.id))
         /\ PassBegins => Range(pass'.todo) = Range(handles)
         /\ PassEnds
              => \A h \in Range(lastBroadcast.attempted) \cap Range(handles) :
                   received[h] # <<>> /\ received[h][Len(received[h])] = pass.id]_vars

(* Handle 1 got the first notification and was removed; handle 2, which    *)
(* was registered after the first broadcast was issued, got the second.    *)
C28_Witness ==
  /\ consumed = 2
  /\ pass.active
  /\ pass.todo = <<>>
  /\ lastBroadcast.attempted = <<2>>
  /\ handles = <<2>>
  /\ received[1] = <<1>>
  /\ received[2] = <<2>>

(* C29: the deliveries of different events are independent detached tasks: *)
(* the delivery of a later event can end before the delivery of an earlier *)
(* one, and a step of a delivery changes that delivery alone, its send     *)
(* calls and its outcome depending on its own transport results only.      *)
C29_DeliveriesIndependent ==
  [][\A d \in 1..Len(detached) :
       detached'[d] # detached[d]
         => /\ \A e \in (1..Len(detached)) \ {d} : detached'[e] = detached[e]
            /\ detached[d].pc = "sending"
            /\ detached'[d].pc = "done"
            /\ detached'[d].req = detached[d].req
            /\ Count(detached'[d].timeline, "send") = Count(detached[d].timeline, "send")
            /\ detached'[d].result =
                 IF TransportFails(detached[d].req, Count(detached[d].timeline, "send"))
                 THEN "false" ELSE "true"]_vars

(* The delivery of event 2 is done while the one of event 1, whose send    *)
(* call will fail, is still suspended on it.                               *)
C29_Witness ==
  /\ Len(detached) = 2
  /\ detached[1].event = 1
  /\ detached[1].pc = "sending"
  /\ detached[1].req.failFirst = 1
  /\ detached[2].event = 2
  /\ detached[2].pc = "done"
  /\ detached[2].result = "true"

====
